---- MODULE Spec2Model ----
(***************************************************************************)
(* Model of src/app.py: the master's-programme dashboard.                  *)
(*                                                                         *)
(*   load_data -> calculate_scores -> run (sidebar filters)                *)
(*                                                                         *)
(* Numbers.  Every numeric column is a pandas float64 column and every     *)
(* score is computed in IEEE-754 binary floating point, each operation     *)
(* rounded to nearest, ties to even.  The model keeps that arithmetic and  *)
(* bounds the format: a float has Prec significand bits (float64: 53) and  *)
(* is a multiple of the quantum 2^-Frac (float64: 2^-1074).  A float is    *)
(* held as its number of quanta, a natural number; NaN is the value -1.    *)
(* All quantities of the program are non-negative (prices, credits,        *)
(* percentages, ratings, x - min, max - x), so no sign is modelled.        *)
(***************************************************************************)
EXTENDS Integers, Sequences, FiniteSets, TLC

\* ------------------------------------------------------------------ bounds
Prec == 8          \* significand bits of the float format
Frac == 12         \* fractional bits: the quantum is 2^-Frac

\* ------------------------------------------------------- float arithmetic
NaN == -1

IsNaN(x) == x < 0

Max2(a, b) == IF a >= b THEN a ELSE b

Pow2(n) == IF n <= 0 THEN 1 ELSE 2 ^ n

\* Number of bits of n: the least k with n < 2^k.
RECURSIVE BitLen(_)
BitLen(n) ==
    IF n = 0 THEN 0
    ELSE IF n >= 256 THEN 8 + BitLen(n \div 256)
    ELSE 1 + BitLen(n \div 2)

\* Number of trailing zero bits of n > 0.
RECURSIVE Trail(_)
Trail(n) ==
    IF n = 0 \/ n % 2 = 1 THEN 0
    ELSE IF n % 256 = 0 THEN 8 + Trail(n \div 256)
    ELSE 1 + Trail(n \div 2)

\* n with its low `drop` bits rounded away, to nearest, ties to even;
\* `sticky` says that the exact value lies strictly above n.
RoundBits(n, sticky, drop) ==
    IF drop = 0 THEN n
    ELSE LET unit == Pow2(drop)
             hi   == n \div unit
             lo   == n % unit
             half == unit \div 2
             up   == \/ lo > half
                     \/ lo = half /\ sticky
                     \/ lo = half /\ ~sticky /\ hi % 2 = 1
         IN  (IF up THEN hi + 1 ELSE hi) * unit

\* The float nearest to n * 2^ex quanta (n a natural number).
RoundScaled(n, sticky, ex) ==
    LET drop == Max2(Max2(BitLen(n) - Prec, -ex), 0)
        r    == RoundBits(n, sticky, drop)
    IN  IF ex >= 0 THEN r * Pow2(ex) ELSE r \div Pow2(-ex)

\* The integer k as a float.
F(k) == RoundScaled(k, FALSE, Frac)

FAdd(a, b) == IF IsNaN(a) \/ IsNaN(b) THEN NaN ELSE RoundScaled(a + b, FALSE, 0)

\* a - b for a >= b (the only subtractions of the program).
FSub(a, b) == IF IsNaN(a) \/ IsNaN(b) THEN NaN ELSE RoundScaled(a - b, FALSE, 0)

FMul(a, b) ==
    IF IsNaN(a) \/ IsNaN(b) THEN NaN
    ELSE IF a = 0 \/ b = 0 THEN 0
    ELSE LET ta == Trail(a)
             tb == Trail(b)
         IN  RoundScaled((a \div Pow2(ta)) * (b \div Pow2(tb)), FALSE,
                         ta + tb - Frac)

\* a / b for b > 0.
FDiv(a, b) ==
    IF IsNaN(a) \/ IsNaN(b) THEN NaN
    ELSE IF a = 0 THEN 0
    ELSE LET ta == Trail(a)
             tb == Trail(b)
             oa == a \div Pow2(ta)
             ob == b \div Pow2(tb)
             s  == Max2(Prec + 1 + BitLen(ob) - BitLen(oa), 0)
             nn == oa * Pow2(s)
         IN  RoundScaled(nn \div ob, nn % ob # 0, ta - tb - s + Frac)

\* A decimal literal num/den of the source (0.7, 0.25, ...): the nearest float.
Dec(num, den) == FDiv(F(num), F(den))

\* --------------------------------------------------------- pandas Series
\* A Series is a sequence of floats; a DataFrame is a sequence of rows
\* (records), its columns the record fields.
Col(frame, c) == [i \in 1..Len(frame) |-> frame[i][c]]

SetCol(frame, c, series) ==
    [i \in 1..Len(frame) |-> [frame[i] EXCEPT ![c] = series[i]]]

NotNa(series) == {series[i] : i \in {j \in 1..Len(series) : ~IsNaN(series[j])}}

\* Series.max() and Series.min() skip NaN and are NaN when nothing is left.
SeriesMax(series) ==
    IF NotNa(series) = {} THEN NaN
    ELSE CHOOSE m \in NotNa(series) : \A v \in NotNa(series) : v <= m

SeriesMin(series) ==
    IF NotNa(series) = {} THEN NaN
    ELSE CHOOSE m \in NotNa(series) : \A v \in NotNa(series) : m <= v

RECURSIVE Insert(_, _)
Insert(x, s) ==
    IF s = <<>> THEN <<x>>
    ELSE IF x <= Head(s) THEN <<x>> \o s
    ELSE <<Head(s)>> \o Insert(x, Tail(s))

RECURSIVE SortAsc(_)
SortAsc(s) == IF s = <<>> THEN <<>> ELSE Insert(Head(s), SortAsc(Tail(s)))

\* Series.median(): NaN skipped; the middle value, or the mean of the two
\* middle values; NaN when nothing is left.
Median(series) ==
    LET v == SortAsc(SelectSeq(series, LAMBDA x : ~IsNaN(x)))
        n == Len(v)
    IN  IF n = 0 THEN NaN
        ELSE IF n % 2 = 1 THEN v[(n + 1) \div 2]
        ELSE FDiv(FAdd(v[n \div 2], v[n \div 2 + 1]), F(2))

FillNa(series, v) ==
    [i \in 1..Len(series) |-> IF IsNaN(series[i]) THEN v ELSE series[i]]

\* ------------------------------------------------------------- load_data
\* A cell of a numeric CSV column: a number, an empty cell, or text.
EmptyCell == -1
TextCell == -2

\* pd.to_numeric(errors='coerce'): whatever is not a number becomes NaN.
ToNumeric(cell) == IF cell < 0 THEN NaN ELSE cell

\* astype(bool) on the parsed column: 0 is False; 1 and a missing value
\* (NaN) are True.
AsBool(cell) == cell # 0

\* Variant of load_data_impute without the fillna of enfoque_practico.
load_data_impute_two(frame) ==
    LET a == SetCol(frame, "tasa_empleabilidad_6m",
                    FillNa(Col(frame, "tasa_empleabilidad_6m"),
                           Median(Col(frame, "tasa_empleabilidad_6m"))))
    IN  SetCol(a, "red_empresas_partners",
               FillNa(Col(a, "red_empresas_partners"),
                      Median(Col(a, "red_empresas_partners"))))

load_data_impute(frame) ==
    LET a == SetCol(frame, "tasa_empleabilidad_6m",
                    FillNa(Col(frame, "tasa_empleabilidad_6m"),
                           Median(Col(frame, "tasa_empleabilidad_6m"))))
        b == SetCol(a, "enfoque_practico",
                    FillNa(Col(a, "enfoque_practico"),
                           Median(Col(a, "enfoque_practico"))))
    IN  SetCol(b, "red_empresas_partners",
               FillNa(Col(b, "red_empresas_partners"),
                      Median(Col(b, "red_empresas_partners"))))

load_data_coerce(file) ==
    [i \in 1..Len(file) |->
        [idx                   |-> i - 1,
         ciudad                |-> file[i].ciudad,
         tipo_programa         |-> file[i].tipo_programa,
         texto                 |-> file[i].texto,
         precio_total_eur      |-> ToNumeric(file[i].precio_total_eur),
         credito_ECTS          |-> ToNumeric(file[i].credito_ECTS),
         porcentaje_analitico  |-> ToNumeric(file[i].porcentaje_analitico),
         porcentaje_gerencial  |-> ToNumeric(file[i].porcentaje_gerencial),
         enfoque_practico      |-> ToNumeric(file[i].enfoque_practico),
         red_empresas_partners |-> ToNumeric(file[i].red_empresas_partners),
         tasa_empleabilidad_6m |-> ToNumeric(file[i].tasa_empleabilidad_6m),
         practicas_ofrecidas   |-> AsBool(file[i].practicas_ofrecidas)]]

load_data(file) == load_data_impute(load_data_coerce(file))

\* The literal 100 of the source, as a float.
Hundred == F(100)

\* ------------------------------------------------------ normalize_to_100
normalize_to_100(series) ==
    LET mx == SeriesMax(series)
        mn == SeriesMin(series)
    IN  IF ~IsNaN(mx) /\ mx = mn
        THEN [i \in 1..Len(series) |-> Hundred]
        ELSE [i \in 1..Len(series) |->
                FDiv(FMul(Hundred, FSub(series[i], mn)), FSub(mx, mn))]

\* --------------------------------------------------- ajuste_perfil_score
produccion_kws == {"procesos", "producción", "optimización", "industrial",
                   "operations", "operaciones", "lean"}

logistica_kws == {"logística", "supply chain"}

\* `texto` is the lower-cased "programa componentes_curriculares" text of a
\* row, held as the set of vocabulary terms that occur in it.
Clip(x, lo, hi) == IF x < lo THEN lo ELSE IF x > hi THEN hi ELSE x

ajuste_perfil_score(frame) ==
    [i \in 1..Len(frame) |->
        F(Clip((IF frame[i].texto \cap produccion_kws # {} THEN 30 ELSE 0)
               + (IF frame[i].texto \cap logistica_kws # {} THEN 20 ELSE 0)
               + (IF frame[i].practicas_ofrecidas THEN 20 ELSE 0), 0, 100))]

\* ------------------------------------------------ costo_eficiencia_score
\* Series.replace(0, np.nan)
ReplaceZero(series) ==
    [i \in 1..Len(series) |-> IF series[i] = 0 THEN NaN ELSE series[i]]

precio_por_credito(frame) ==
    LET credits == ReplaceZero(Col(frame, "credito_ECTS"))
        raw == [i \in 1..Len(frame) |->
                   FDiv(frame[i].precio_total_eur, credits[i])]
    IN  FillNa(raw, Median(raw))

costo_eficiencia_score(frame) ==
    LET ppc == precio_por_credito(frame)
        mx == SeriesMax(ppc)
        mn == SeriesMin(ppc)
    IN  IF ~IsNaN(mx) /\ mx = mn
        THEN [i \in 1..Len(frame) |-> Hundred]
        ELSE [i \in 1..Len(frame) |->
                FDiv(FMul(Hundred, FSub(mx, ppc[i])), FSub(mx, mn))]

\* ------------------------------------------------------ calculate_scores
\* WEIGHTS
W_ajuste_perfil == Dec(25, 100)
W_analitico == Dec(20, 100)
W_gerencial == Dec(15, 100)
W_practico == Dec(15, 100)
W_empleabilidad == Dec(15, 100)
W_costo == Dec(10, 100)

\* The blend factors of the practical and the employability score.
C_07 == Dec(7, 10)
C_03 == Dec(3, 10)
C_06 == Dec(6, 10)
C_04 == Dec(4, 10)

practico_total_score(frame) ==
    LET practico_score == normalize_to_100(Col(frame, "enfoque_practico"))
    IN  [i \in 1..Len(frame) |->
            FAdd(FMul(practico_score[i], C_07),
                 FMul(IF frame[i].practicas_ofrecidas THEN Hundred ELSE 0,
                      C_03))]

empleabilidad_total_score(frame) ==
    LET empleabilidad_score ==
            normalize_to_100(Col(frame, "tasa_empleabilidad_6m"))
        red_empresas_score ==
            normalize_to_100(Col(frame, "red_empresas_partners"))
    IN  [i \in 1..Len(frame) |->
            FAdd(FMul(empleabilidad_score[i], C_06),
                 FMul(red_empresas_score[i], C_04))]

\* The weighted sum of one row, before fillna: NaN as soon as one term is.
WeightedSum(r) ==
    FAdd(FAdd(FAdd(FAdd(FAdd(FMul(r.ajuste_perfil_score, W_ajuste_perfil),
                             FMul(r.analitico_score, W_analitico)),
                        FMul(r.gerencial_score, W_gerencial)),
                   FMul(r.practico_total_score, W_practico)),
              FMul(r.empleabilidad_total_score, W_empleabilidad)),
         FMul(r.costo_score, W_costo))

\* Variant of puntaje_final without the trailing fillna(0).
puntaje_final_nofill(frame) == [i \in 1..Len(frame) |-> WeightedSum(frame[i])]

puntaje_final(frame) == FillNa([i \in 1..Len(frame) |-> WeightedSum(frame[i])], 0)

\* The validation checks of one row; a comparison with NaN is False.
Warnings(r) ==
    LET mix == FAdd(r.porcentaje_analitico, r.porcentaje_gerencial)
    IN  (IF ~IsNaN(mix) /\ mix < F(50)
         THEN <<"No cumple el mix buscado">> ELSE <<>>)
        \o (IF ~IsNaN(r.enfoque_practico) /\ r.enfoque_practico < F(2)
               /\ ~r.practicas_ofrecidas
            THEN <<"Menor aplicabilidad industrial">> ELSE <<>>)
        \o (IF IsNaN(r.precio_total_eur)
            THEN <<"Precio no disponible">> ELSE <<>>)

\* calculate_scores up to its return statement: the scored, unsorted frame.
\* No score column is read by the computation of another one, only by the
\* weighted sum.
score_columns(frame) ==
    LET ajuste == ajuste_perfil_score(frame)
        practico == practico_total_score(frame)
        empleabilidad == empleabilidad_total_score(frame)
        costo == costo_eficiencia_score(frame)
        scored == [i \in 1..Len(frame) |->
                      [ajuste_perfil_score       |-> ajuste[i],
                       analitico_score           |-> frame[i].porcentaje_analitico,
                       gerencial_score           |-> frame[i].porcentaje_gerencial,
                       practico_total_score      |-> practico[i],
                       empleabilidad_total_score |-> empleabilidad[i],
                       costo_score               |-> costo[i]] @@ frame[i]]
        final == puntaje_final(scored)
    IN  [i \in 1..Len(frame) |->
            [Puntaje_Final |-> final[i], warnings |-> Warnings(frame[i])]
            @@ scored[i]]

Perms(n) ==
    {p \in [1..n -> 1..n] : \A i, j \in 1..n : i # j => p[i] # p[j]}

\* Variant of sort_values with ascending=True.
sort_values_ascending(frame, by) ==
    {[i \in 1..Len(frame) |-> frame[p[i]]] : p \in
        {q \in Perms(Len(frame)) :
            \A i \in 1..Len(frame) - 1 : frame[q[i]][by] <= frame[q[i + 1]][by]}}

\* DataFrame.sort_values(by, ascending=False): kind is left at its default,
\* 'quicksort', which pandas documents as not stable; the order it gives to
\* rows with equal keys depends on the numpy build (scalar introsort, SIMD
\* kernels) and on the number of rows.  Every order of the rows that is
\* descending in `by` is a possible result.
sort_values(frame, by) ==
    {[i \in 1..Len(frame) |-> frame[p[i]]] : p \in
        {q \in Perms(Len(frame)) :
            \A i \in 1..Len(frame) - 1 : frame[q[i]][by] >= frame[q[i + 1]][by]}}

\* Variant of calculate_scores that drops the rows without a price.
HasPrice(r) == ~IsNaN(r.precio_total_eur)

calculate_scores_dropna(frame) ==
    sort_values(score_columns(SelectSeq(frame, HasPrice)), "Puntaje_Final")

calculate_scores(frame) == sort_values(score_columns(frame), "Puntaje_Final")

\* ------------------------------------------------------------------- run
Unique(series) == {series[i] : i \in 1..Len(series)}

\* int(x) of a non-negative float.
IntOf(x) == x \div Pow2(Frac)

\* Series.between(lo, hi), inclusive; False for NaN.
Between(x, lo, hi) == ~IsNaN(x) /\ F(lo) <= x /\ x <= F(hi)

DefaultWidgets(scored) ==
    LET max_price == IntOf(SeriesMax(Col(scored, "precio_total_eur")))
    IN  [cities        |-> Unique(Col(scored, "ciudad")),
         program_types |-> Unique(Col(scored, "tipo_programa")),
         price_range   |-> <<0, max_price>>,
         min_score     |-> 0,
         practicas     |-> FALSE]

\* Variant of Mask that joins the predicates with | instead of &.
Mask_any(r, w) ==
    \/ r.ciudad \in w.cities
    \/ r.tipo_programa \in w.program_types
    \/ Between(r.precio_total_eur, w.price_range[1], w.price_range[2])
    \/ r.Puntaje_Final >= F(w.min_score)

Mask(r, w) ==
    /\ r.ciudad \in w.cities
    /\ r.tipo_programa \in w.program_types
    /\ Between(r.precio_total_eur, w.price_range[1], w.price_range[2])
    /\ r.Puntaje_Final >= F(w.min_score)

Filter(scored, w) ==
    LET masked == SelectSeq(scored, LAMBDA r : Mask(r, w))
    IN  IF w.practicas
        THEN SelectSeq(masked, LAMBDA r : r.practicas_ofrecidas = TRUE)
        ELSE masked

\* ------------------------------------------------------------ the inputs
MaxRows == 2          \* rows of masters_data.csv
MaxSessionRows == 2   \* rows of masters_data.csv in a session with widget changes
MaxLen == 3           \* length of a Series handed to normalize_to_100
MaxCostRows == 2      \* rows of a frame handed to costo_eficiencia_score

BaseRow ==
    [ciudad                |-> "Madrid",
     tipo_programa         |-> "Presencial",
     texto                 |-> {"lean", "analytics"},
     precio_total_eur      |-> F(8),
     credito_ECTS          |-> F(60),
     porcentaje_analitico  |-> F(40),
     porcentaje_gerencial  |-> F(30),
     enfoque_practico      |-> F(3),
     red_empresas_partners |-> F(20),
     tasa_empleabilidad_6m |-> F(80),
     practicas_ofrecidas   |-> 1]

\* The rows a CSV file is made of: the base row, and the base row with one
\* of its cells changed.
RawRows ==
    {BaseRow}
    \cup {[BaseRow EXCEPT !.ciudad = "Barcelona"],
          [BaseRow EXCEPT !.tipo_programa = "Online"],
          [BaseRow EXCEPT !.texto = {"finanzas"}],
          [BaseRow EXCEPT !.texto = {"lean", "supply chain"}]}
    \cup {[BaseRow EXCEPT !.precio_total_eur = v] :
             v \in {EmptyCell, TextCell, F(5), Dec(17, 2)}}
    \cup {[BaseRow EXCEPT !.credito_ECTS = v] : v \in {EmptyCell, 0, F(90)}}
    \cup {[BaseRow EXCEPT !.porcentaje_analitico = v] : v \in {EmptyCell, F(5)}}
    \cup {[BaseRow EXCEPT !.porcentaje_gerencial = v] : v \in {EmptyCell}}
    \cup {[BaseRow EXCEPT !.enfoque_practico = v] : v \in {EmptyCell, F(1)}}
    \cup {[BaseRow EXCEPT !.red_empresas_partners = v] : v \in {EmptyCell, F(35)}}
    \cup {[BaseRow EXCEPT !.tasa_empleabilidad_6m = v] : v \in {EmptyCell, F(91)}}
    \cup {[BaseRow EXCEPT !.practicas_ofrecidas = v] : v \in {EmptyCell, 0}}

\* The rows of a session's file: the cells the sidebar filters read.
SessionRows ==
    {BaseRow,
     [BaseRow EXCEPT !.ciudad = "Barcelona"],
     [BaseRow EXCEPT !.tipo_programa = "Online"],
     [BaseRow EXCEPT !.precio_total_eur = F(5)],
     [BaseRow EXCEPT !.precio_total_eur = EmptyCell],
     [BaseRow EXCEPT !.porcentaje_analitico = F(5)],
     [BaseRow EXCEPT !.practicas_ofrecidas = 0]}

SeqsUpTo(S, n) == UNION {[1..k -> S] : k \in 0..n}

CsvFiles == SeqsUpTo(RawRows, MaxRows)

SessionCsvFiles == SeqsUpTo(SessionRows, MaxSessionRows)

\* The values of a Series handed to normalize_to_100.
SeriesValues == {NaN, F(0), F(2), F(13), F(15)}

\* The rows of a frame handed to costo_eficiencia_score.
CostValues == {NaN, F(1), F(2), F(4)}

CostRows ==
    {[precio_total_eur |-> p, credito_ECTS |-> c] :
        p \in CostValues, c \in {NaN, 0, F(3), F(6)}}

\* A frame, one of its rows with a price, and a lower price for that row.
CostArgs ==
    {[frame |-> f, row |-> i, precio |-> p] :
        f \in SeqsUpTo(CostRows, MaxCostRows) \ {<<>>},
        i \in 1..MaxCostRows,
        p \in CostValues \ {NaN}}

LowerPrice(a) ==
    [a.frame EXCEPT ![a.row] = [@ EXCEPT !.precio_total_eur = a.precio]]

\* The stops of the sidebar sliders a user is taken to choose among.
PriceStops(scored) ==
    {0} \cup {IntOf(r.precio_total_eur) :
                 r \in {x \in Unique(scored) : ~IsNaN(x.precio_total_eur)}}

ScoreStops == {0, 50, 100}

\* ------------------------------------------------------------- the state
VARIABLES
    pc,           \* "start", "shown", "crashed"; "call", "ret" for one function
    csv,          \* masters_data.csv
    df,           \* load_data()
    scored_df,    \* calculate_scores(df)
    widgets,      \* the sidebar's widget values
    filtered_df,  \* the rows shown
    arg,          \* the argument of a function applied on its own
    ret           \* its result

vars == <<pc, csv, df, scored_df, widgets, filtered_df, arg, ret>>

NoWidgets == [cities |-> {}, program_types |-> {}, price_range |-> <<0, 0>>,
              min_score |-> 0, practicas |-> FALSE]

NoRun ==
    /\ df = <<>>
    /\ scored_df = <<>>
    /\ widgets = NoWidgets
    /\ filtered_df = <<>>

Init ==
    /\ pc = "start"
    /\ csv \in CsvFiles
    /\ NoRun
    /\ arg = <<>>
    /\ ret = <<>>

InitSession ==
    /\ pc = "start"
    /\ csv \in SessionCsvFiles
    /\ NoRun
    /\ arg = <<>>
    /\ ret = <<>>

\* The first run of the script: run() with every widget at its default.
\* int() of a NaN maximum price raises ValueError and the script stops.
Run ==
    /\ pc = "start"
    /\ df' = load_data(csv)
    /\ scored_df' \in calculate_scores(df')
    /\ IF IsNaN(SeriesMax(Col(scored_df', "precio_total_eur")))
       THEN /\ pc' = "crashed"
            /\ UNCHANGED <<widgets, filtered_df>>
       ELSE /\ pc' = "shown"
            /\ widgets' = DefaultWidgets(scored_df')
            /\ filtered_df' = Filter(scored_df', widgets')
    /\ UNCHANGED <<csv, arg, ret>>

\* A widget change reruns the script with the widget values w.  load_data is
\* cached (st.cache_data) and returns the frame it returned before;
\* calculate_scores, run again on the same frame by the same build, returns
\* the frame it returned before.
Rerun(w) ==
    /\ pc = "shown"
    /\ w # widgets
    /\ widgets' = w
    /\ filtered_df' = Filter(scored_df, w)
    /\ UNCHANGED <<pc, csv, df, scored_df, arg, ret>>

SetCities ==
    \E S \in SUBSET Unique(Col(scored_df, "ciudad")) :
        Rerun([widgets EXCEPT !.cities = S])

SetProgramTypes ==
    \E S \in SUBSET Unique(Col(scored_df, "tipo_programa")) :
        Rerun([widgets EXCEPT !.program_types = S])

SetPriceRange ==
    \E lo, hi \in PriceStops(scored_df) :
        /\ lo <= hi
        /\ Rerun([widgets EXCEPT !.price_range = <<lo, hi>>])

SetMinScore ==
    \E m \in ScoreStops : Rerun([widgets EXCEPT !.min_score = m])

SetPracticas == Rerun([widgets EXCEPT !.practicas = ~@])

Next == Run

NextSession ==
    \/ Run
    \/ SetCities
    \/ SetProgramTypes
    \/ SetPriceRange
    \/ SetMinScore
    \/ SetPracticas

\* Every file of at most MaxRows rows, loaded, scored and shown with the
\* default widgets.
Spec == Init /\ [][Next]_vars

\* A session: the first run, then any number of widget changes.
SpecSession == InitSession /\ [][NextSession]_vars

\* normalize_to_100 applied on its own.
InitNormalize ==
    /\ pc = "call"
    /\ arg \in SeqsUpTo(SeriesValues, MaxLen)
    /\ ret = <<>>
    /\ csv = <<>>
    /\ NoRun

CallNormalize ==
    /\ pc = "call"
    /\ pc' = "ret"
    /\ ret' = normalize_to_100(arg)
    /\ UNCHANGED <<csv, df, scored_df, widgets, filtered_df, arg>>

SpecNormalize == InitNormalize /\ [][CallNormalize]_vars

\* costo_eficiencia_score applied to a frame and to the same frame with one
\* price lowered.
InitCosto ==
    /\ pc = "call"
    /\ arg \in {a \in CostArgs :
                  /\ a.row <= Len(a.frame)
                  /\ ~IsNaN(a.frame[a.row].precio_total_eur)
                  /\ a.precio < a.frame[a.row].precio_total_eur}
    /\ ret = <<>>
    /\ csv = <<>>
    /\ NoRun

CallCosto ==
    /\ pc = "call"
    /\ pc' = "ret"
    /\ ret' = [before |-> costo_eficiencia_score(arg.frame),
               after  |-> costo_eficiencia_score(LowerPrice(arg))]
    /\ UNCHANGED <<csv, df, scored_df, widgets, filtered_df, arg>>

SpecCosto == InitCosto /\ [][CallCosto]_vars

\* ----------------------------------------------------------------- claims
Rows(frame) == 1..Len(frame)

HasNaN(series) == \E i \in Rows(series) : IsNaN(series[i])

AllEqual(series) == \A i, j \in Rows(series) : series[i] = series[j]

\* C1: normalize_to_100 of a non-empty Series without missing values has one
\* score per value; if all values are equal every score is exactly 100;
\* otherwise every minimum scores exactly 0 and every maximum exactly 100.
C1_NormalizeExact ==
    (pc = "ret" /\ arg # <<>> /\ ~HasNaN(arg)) =>
        /\ Len(ret) = Len(arg)
        /\ IF AllEqual(arg)
           THEN \A i \in Rows(arg) : ret[i] = Hundred
           ELSE \A i \in Rows(arg) :
                   /\ arg[i] = SeriesMin(arg) => ret[i] = 0
                   /\ arg[i] = SeriesMax(arg) => ret[i] = Hundred

\* The columns of the loaded frame.
InputCols == {"idx", "ciudad", "tipo_programa", "texto", "precio_total_eur",
              "credito_ECTS", "porcentaje_analitico", "porcentaje_gerencial",
              "enfoque_practico", "red_empresas_partners",
              "tasa_empleabilidad_6m", "practicas_ofrecidas"}

InputPart(r) == [c \in InputCols |-> r[c]]

\* C2: completeness of calculate_scores: the output has as many rows as the
\* input, and every input row occurs in it exactly once, whatever is missing.
C2_Completeness ==
    pc # "start" =>
        /\ Len(scored_df) = Len(df)
        /\ \A k \in Rows(df) :
              Cardinality({i \in Rows(scored_df) :
                              InputPart(scored_df[i]) = df[k]}) = 1

C2_Witness ==
    /\ pc # "start"
    /\ Len(df) >= 2
    /\ \E i, j \in Rows(scored_df) :
          /\ IsNaN(scored_df[i].precio_total_eur)
          /\ IsNaN(scored_df[j].porcentaje_analitico)

\* C3: stability of the ranking: two rows of the output of calculate_scores
\* with the same Puntaje Final are in the order they had in the input.
C3_Stable ==
    pc # "start" =>
        \A i, j \in Rows(scored_df) :
            (i < j /\ scored_df[i].Puntaje_Final = scored_df[j].Puntaje_Final)
                => scored_df[i].idx < scored_df[j].idx

\* C4: the output of calculate_scores is in descending order of Puntaje
\* Final: each row's score is at least the score of the row after it.
C4_Descending ==
    pc # "start" =>
        \A i \in 1..Len(scored_df) - 1 :
            /\ ~IsNaN(scored_df[i + 1].Puntaje_Final)
            /\ scored_df[i].Puntaje_Final >= scored_df[i + 1].Puntaje_Final

C4_Witness ==
    /\ pc # "start"
    /\ Len(scored_df) >= 2
    /\ scored_df[1].idx > scored_df[2].idx
    /\ scored_df[1].Puntaje_Final > scored_df[2].Puntaje_Final

\* C5: monotonicity of costo_eficiencia_score: lowering the price of one row,
\* its credits and the other rows unchanged, never lowers that row's score.
C5_Monotone ==
    pc = "ret" => ret.after[arg.row] >= ret.before[arg.row]

Shown(r) ==
    /\ r.ciudad \in widgets.cities
    /\ r.tipo_programa \in widgets.program_types
    /\ ~IsNaN(r.precio_total_eur)
    /\ r.precio_total_eur >= F(widgets.price_range[1])
    /\ r.precio_total_eur <= F(widgets.price_range[2])
    /\ r.Puntaje_Final >= F(widgets.min_score)
    /\ widgets.practicas => r.practicas_ofrecidas

\* C6: the filter step of run() shows exactly the rows of the ranked frame
\* that satisfy every predicate at once (city, modality, price range
\* inclusive, minimum score, internship when asked for), in the ranked order.
C6_FilterConjunction ==
    pc = "shown" =>
        /\ \A i \in Rows(scored_df) :
              Shown(scored_df[i]) <=>
                  \E k \in Rows(filtered_df) : filtered_df[k] = scored_df[i]
        /\ \E f \in [Rows(filtered_df) -> Rows(scored_df)] :
              /\ \A k \in Rows(filtered_df) : filtered_df[k] = scored_df[f[k]]
              /\ \A k \in 1..Len(filtered_df) - 1 : f[k] < f[k + 1]

C6_Witness ==
    /\ pc = "shown"
    /\ widgets.min_score = 50
    /\ filtered_df # <<>>
    /\ \E i \in Rows(scored_df) :
          /\ scored_df[i].ciudad = "Barcelona"
          /\ scored_df[i].ciudad \notin widgets.cities
          /\ scored_df[i].Puntaje_Final >= F(50)
          /\ \A k \in Rows(filtered_df) :
                filtered_df[k].Puntaje_Final <= scored_df[i].Puntaje_Final

SubScores == {"ajuste_perfil_score", "analitico_score", "gerencial_score",
              "practico_total_score", "empleabilidad_total_score",
              "costo_score"}

\* C7: a row one of whose sub-scores is missing has Puntaje Final exactly 0,
\* and no row of the output of calculate_scores has a missing Puntaje Final.
C7_UncomputableIsZero ==
    pc # "start" =>
        \A i \in Rows(scored_df) :
            /\ ~IsNaN(scored_df[i].Puntaje_Final)
            /\ (\E c \in SubScores : IsNaN(scored_df[i][c]))
                   => scored_df[i].Puntaje_Final = 0

C7_Witness ==
    /\ pc # "start"
    /\ \E i, j \in Rows(scored_df) :
          /\ IsNaN(scored_df[i].analitico_score)
          /\ scored_df[i].Puntaje_Final = 0
          /\ scored_df[j].Puntaje_Final > 0

NumericCols == {"precio_total_eur", "credito_ECTS", "porcentaje_analitico",
                "porcentaje_gerencial", "enfoque_practico",
                "red_empresas_partners", "tasa_empleabilidad_6m"}

ImputedCols == {"enfoque_practico", "red_empresas_partners",
                "tasa_empleabilidad_6m"}

\* The column c of the file, parsed.
Parsed(c) == [i \in Rows(csv) |-> ToNumeric(csv[i][c])]

\* The value of row i in column c when the missing values of the column are
\* replaced by the median of its other values.
MedianImputed(c, i) ==
    IF IsNaN(Parsed(c)[i]) THEN Median(Parsed(c)) ELSE Parsed(c)[i]

\* C8: after load_data every missing numeric value has been replaced by the
\* median of the non-missing values of its column in that load.
C8_AllImputed ==
    pc # "start" =>
        \A c \in NumericCols : \A i \in Rows(df) : df[i][c] = MedianImputed(c, i)

\* C8, amended: load_data replaces the missing values of enfoque_practico,
\* red_empresas_partners and tasa_empleabilidad_6m by the median of the
\* column's other values in that load (a column with no value stays missing);
\* every other numeric column is left as parsed, missing values included.
C8_ImputedColumns ==
    pc # "start" =>
        /\ Len(df) = Len(csv)
        /\ \A c \in ImputedCols : \A i \in Rows(df) :
              df[i][c] = MedianImputed(c, i)
        /\ \A c \in NumericCols \ ImputedCols : \A i \in Rows(df) :
              df[i][c] = Parsed(c)[i]

C8_Witness ==
    /\ pc # "start"
    /\ \E i, j \in Rows(df) :
          /\ IsNaN(Parsed("enfoque_practico")[i])
          /\ ~IsNaN(df[i].enfoque_practico)
          /\ IsNaN(df[j].precio_total_eur)
          /\ ~IsNaN(SeriesMax(Col(df, "precio_total_eur")))

InRange(x) == ~IsNaN(x) /\ 0 <= x /\ x <= Hundred

\* C9: when no numeric value is missing, the percentages are in 0..100 and
\* prices and credits are not negative, every sub-score and every Puntaje
\* Final of the output of calculate_scores is in [0, 100].
C9_ScoreRange ==
    (/\ pc # "start"
     /\ \A i \in Rows(df) :
           /\ \A c \in NumericCols : ~IsNaN(df[i][c])
           /\ df[i].porcentaje_analitico <= Hundred
           /\ df[i].porcentaje_gerencial <= Hundred)
    => \A i \in Rows(scored_df) :
          /\ \A c \in SubScores : InRange(scored_df[i][c])
          /\ InRange(scored_df[i].Puntaje_Final)

\* C10: with the widget values run() starts with, the rows shown are the
\* whole ranked frame.
C10_DefaultShowsAll ==
    (pc = "shown" /\ widgets = DefaultWidgets(scored_df))
        => filtered_df = scored_df
====
